---- MODULE Spec2Model ----
(***************************************************************************)
(* Bookmark extraction subsystem of bookmark-analyzer (src/src/browser.rs): *)
(* default-browser detection, storage-location resolution, the Chromium    *)
(* JSON tree parser, the Gecko profile locator and the Gecko store parser, *)
(* and the get_bookmarks orchestrator.                                     *)
(*                                                                         *)
(* Text (command output, profiles.ini lines, paths) is a sequence of       *)
(* one-character strings, so that lowercasing, substring search, prefix    *)
(* stripping and path joining are computed character by character.         *)
(* Bookmark names and URLs, which the program only copies, are strings.    *)
(***************************************************************************)
EXTENDS Integers, Sequences, FiniteSets, TLC

VARIABLES
    cmd,      \* outcome of `xdg-settings get default-web-browser`
    home,     \* the HOME environment variable: None or Some(text)
    fs,       \* the file system: path |-> file content, for the files that exist
    pc,       \* position of the get_bookmarks call
    browser,  \* the detected Browser
    path,     \* the location get_bookmarks resolved (Option)
    result,   \* what get_bookmarks returned
    log,      \* the operations get_bookmarks has performed, in order
    fpc,      \* per parse_firefox_bookmarks call: its position
    farg,     \* per call: the profile_path argument
    conn,     \* per call: the inode its sqlite Connection has open (0: none)
    fbm,      \* per call: the bookmarks its query collected
    fres,     \* per call: what the call returned
    inodes,   \* file bodies of the temporary directory, by inode number
    tmp       \* temporary directory: file name |-> inode (0: no such file)

vars ==
    <<cmd, home, fs, pc, browser, path, result, log,
      fpc, farg, conn, fbm, fres, inodes, tmp>>

envVars ==
    <<cmd, home, fs>>

callVars ==
    <<pc, browser, path, result, log>>

geckoVars ==
    <<fpc, farg, conn, fbm, fres, inodes, tmp>>

----------------------------------------------------------------------------
(* Option and Result values *)

None ==
    [tag |-> "None"]

Some(v) ==
    [tag |-> "Some", val |-> v]

Ok(v) ==
    [tag |-> "Ok", val |-> v]

Err(kind, at) ==
    [tag |-> "Err", kind |-> kind, at |-> at]

Pending ==
    [tag |-> "Pending"]

----------------------------------------------------------------------------
(* Text *)

S_zen ==
    <<"z", "e", "n">>
S_chrome ==
    <<"c", "h", "r", "o", "m", "e">>
S_firefox ==
    <<"f", "i", "r", "e", "f", "o", "x">>
S_brave ==
    <<"b", "r", "a", "v", "e">>
S_edge ==
    <<"e", "d", "g", "e">>

\* char::to_lowercase on the letters the inputs use
LowerChar(ch) ==
    CASE ch = "Z" -> "z"
      [] ch = "C" -> "c"
      [] ch = "E" -> "e"
      [] ch = "D" -> "d"
      [] ch = "G" -> "g"
      [] ch = "P" -> "p"
      [] OTHER -> ch

to_lowercase(s) ==
    [i \in 1..Len(s) |-> LowerChar(s[i])]

\* String::from_utf8_lossy: an invalid byte becomes U+FFFD
InvalidByte ==
    "<ff>"

Replacement ==
    "<fffd>"

from_utf8_lossy(bytes) ==
    [i \in 1..Len(bytes) |-> IF bytes[i] = InvalidByte THEN Replacement ELSE bytes[i]]

\* str::contains(pat)
contains(s, pat) ==
    \E i \in 0..(Len(s) - Len(pat)) : SubSeq(s, i + 1, i + Len(pat)) = pat

\* str::starts_with(pat)
starts_with(s, pat) ==
    Len(s) >= Len(pat) /\ SubSeq(s, 1, Len(pat)) = pat

----------------------------------------------------------------------------
(* Browser::detect and Browser::bookmark_path *)

Browsers ==
    {"Chrome", "Firefox", "Brave", "Edge", "Zen", "Unknown"}

\* Mutation of detect: "chrome" tested before "zen".
detect_ChromeFirst(c) ==
    IF c.spawned
    THEN LET browser_str == to_lowercase(from_utf8_lossy(c.stdout))
         IN  IF contains(browser_str, S_chrome) THEN "Chrome"
             ELSE IF contains(browser_str, S_zen) THEN "Zen"
             ELSE IF contains(browser_str, S_firefox) THEN "Firefox"
             ELSE IF contains(browser_str, S_brave) THEN "Brave"
             ELSE IF contains(browser_str, S_edge) THEN "Edge"
             ELSE "Unknown"
    ELSE "Unknown"

\* `if let Ok(output) = Command::new(..).output()`: Ok whenever the command was
\* spawned and waited for, whatever its exit status.
detect(c) ==
    IF c.spawned
    THEN LET browser_str == to_lowercase(from_utf8_lossy(c.stdout))
         IN  IF contains(browser_str, S_zen) THEN "Zen"
             ELSE IF contains(browser_str, S_chrome) THEN "Chrome"
             ELSE IF contains(browser_str, S_firefox) THEN "Firefox"
             ELSE IF contains(browser_str, S_brave) THEN "Brave"
             ELSE IF contains(browser_str, S_edge) THEN "Edge"
             ELSE "Unknown"
    ELSE "Unknown"

ChromeSuffix ==
    <<"/", ".", "c", "o", "n", "f", "i", "g", "/", "g", "o", "o", "g", "l", "e",
      "-", "c", "h", "r", "o", "m", "e", "/", "D", "e", "f", "a", "u", "l", "t",
      "/", "B", "o", "o", "k", "m", "a", "r", "k", "s">>

BraveSuffix ==
    <<"/", ".", "c", "o", "n", "f", "i", "g", "/", "B", "r", "a", "v", "e", "S",
      "o", "f", "t", "w", "a", "r", "e", "/", "B", "r", "a", "v", "e", "-", "B",
      "r", "o", "w", "s", "e", "r", "/", "D", "e", "f", "a", "u", "l", "t", "/",
      "B", "o", "o", "k", "m", "a", "r", "k", "s">>

EdgeSuffix ==
    <<"/", ".", "c", "o", "n", "f", "i", "g", "/", "m", "i", "c", "r", "o", "s",
      "o", "f", "t", "-", "e", "d", "g", "e", "/", "D", "e", "f", "a", "u", "l",
      "t", "/", "B", "o", "o", "k", "m", "a", "r", "k", "s">>

bookmark_path(b, h) ==
    IF h = None THEN None
    ELSE CASE b = "Chrome" -> Some(h.val \o ChromeSuffix)
           [] b = "Brave" -> Some(h.val \o BraveSuffix)
           [] b = "Edge" -> Some(h.val \o EdgeSuffix)
           [] b \in {"Firefox", "Zen"} -> Some(h.val)
           [] OTHER -> None

----------------------------------------------------------------------------
(* File contents.  A file is unreadable (read_to_string fails: a directory, *)
(* no permission, bytes that are not UTF-8), text that is a JSON document,  *)
(* text that is not JSON, plain text (profiles.ini), or database bytes.     *)

Unreadable ==
    [t |-> "unreadable"]

JsonText(v) ==
    [t |-> "json", doc |-> v]

BadJsonText ==
    [t |-> "badjson"]

PlainText(chars) ==
    [t |-> "text", chars |-> chars]

DbFile(db) ==
    [t |-> "sqlite", db |-> db]

GarbageFile ==
    [t |-> "garbage"]

\* Path::exists
exists(p, files) ==
    p \in DOMAIN files

\* std::fs::read_to_string
read_to_string(p, files) ==
    IF ~exists(p, files) \/ files[p].t \in {"unreadable", "sqlite", "garbage"}
    THEN Err("Io", p)
    ELSE Ok(files[p])

----------------------------------------------------------------------------
(* serde_json::Value *)

JNull ==
    [k |-> "null"]

JNum ==
    [k |-> "num"]

JStr(s) ==
    [k |-> "str", s |-> s]

JArr(items) ==
    [k |-> "arr", items |-> items]

JObj(f) ==
    [k |-> "obj", f |-> f]

\* Value::get(&str): None unless the value is an object holding the key
get(v, key) ==
    IF v.k = "obj" /\ key \in DOMAIN v.f THEN Some(v.f[key]) ELSE None

\* .and_then(|t| t.as_str())
and_then_as_str(o) ==
    IF o.tag = "Some" /\ o.val.k = "str" THEN Some(o.val.s) ELSE None

\* .and_then(|c| c.as_array())
and_then_as_array(o) ==
    IF o.tag = "Some" /\ o.val.k = "arr" THEN Some(o.val.items) ELSE None

\* serde_json::from_str on the text of a file
from_str(content) ==
    IF content.t = "json" THEN Ok(content.doc) ELSE Err("Json", <<>>)

Bookmark(name, url) ==
    [name |-> name, url |-> url]

RECURSIVE extract_bookmarks(_, _)
RECURSIVE extract_children(_, _, _)

\* Mutation of extract_bookmarks: a url node without a string url is pushed
\* with an empty url (unwrap_or_default) instead of being skipped.
extract_bookmarks_UrlDefault(node, bookmarks) ==
    LET node_type == and_then_as_str(get(node, "type"))
    IN  IF node_type = None THEN bookmarks
        ELSE IF node_type.val = "url"
        THEN LET name == and_then_as_str(get(node, "name"))
                 url == and_then_as_str(get(node, "url"))
             IN  IF name # None
                 THEN Append(bookmarks,
                        Bookmark(name.val, IF url # None THEN url.val ELSE ""))
                 ELSE bookmarks
        ELSE IF node_type.val = "folder"
        THEN LET children == and_then_as_array(get(node, "children"))
             IN  IF children # None
                 THEN extract_children(children.val, 1, bookmarks)
                 ELSE bookmarks
        ELSE bookmarks

\* fn extract_bookmarks(node, bookmarks): returns the vector after the call
extract_bookmarks(node, bookmarks) ==
    LET node_type == and_then_as_str(get(node, "type"))
    IN  IF node_type = None THEN bookmarks
        ELSE IF node_type.val = "url"
        THEN LET name == and_then_as_str(get(node, "name"))
                 url == and_then_as_str(get(node, "url"))
             IN  IF name # None /\ url # None
                 THEN Append(bookmarks, Bookmark(name.val, url.val))
                 ELSE bookmarks
        ELSE IF node_type.val = "folder"
        THEN LET children == and_then_as_array(get(node, "children"))
             IN  IF children # None
                 THEN extract_children(children.val, 1, bookmarks)
                 ELSE bookmarks
        ELSE bookmarks

\* `for child in children { extract_bookmarks(child, bookmarks) }`, from child i
extract_children(children, i, bookmarks) ==
    IF i > Len(children) THEN bookmarks
    ELSE extract_children(children, i + 1, extract_bookmarks(children[i], bookmarks))

\* Mutation of parse_chromium_bookmarks: "other" walked before "bookmark_bar".
parse_chromium_bookmarks_OtherFirst(p, files) ==
    LET content == read_to_string(p, files)
    IN  IF content.tag = "Err" THEN content
        ELSE LET json == from_str(content.val)
             IN  IF json.tag = "Err" THEN json
                 ELSE LET roots == get(json.val, "roots")
                          b0 == <<>>
                          b1 == IF roots # None /\ get(roots.val, "other") # None
                                THEN extract_bookmarks(get(roots.val, "other").val, b0)
                                ELSE b0
                          b2 == IF roots # None /\ get(roots.val, "bookmark_bar") # None
                                THEN extract_bookmarks(get(roots.val, "bookmark_bar").val, b1)
                                ELSE b1
                          b3 == IF roots # None /\ get(roots.val, "synced") # None
                                THEN extract_bookmarks(get(roots.val, "synced").val, b2)
                                ELSE b2
                      IN  Ok(b3)

\* pub fn parse_chromium_bookmarks(path)
parse_chromium_bookmarks(p, files) ==
    LET content == read_to_string(p, files)
    IN  IF content.tag = "Err" THEN content
        ELSE LET json == from_str(content.val)
             IN  IF json.tag = "Err" THEN json
                 ELSE LET roots == get(json.val, "roots")
                          b0 == <<>>
                          b1 == IF roots # None /\ get(roots.val, "bookmark_bar") # None
                                THEN extract_bookmarks(get(roots.val, "bookmark_bar").val, b0)
                                ELSE b0
                          b2 == IF roots # None /\ get(roots.val, "other") # None
                                THEN extract_bookmarks(get(roots.val, "other").val, b1)
                                ELSE b1
                          b3 == IF roots # None /\ get(roots.val, "synced") # None
                                THEN extract_bookmarks(get(roots.val, "synced").val, b2)
                                ELSE b2
                      IN  Ok(b3)

----------------------------------------------------------------------------
(* Paths, and find_firefox_profile *)

ZenDir ==
    <<"/", ".", "z", "e", "n">>

FirefoxDir ==
    <<"/", ".", "m", "o", "z", "i", "l", "l", "a", "/", "f", "i", "r", "e", "f", "o", "x">>

ProfilesIni ==
    <<"p", "r", "o", "f", "i", "l", "e", "s", ".", "i", "n", "i">>

PlacesSqlite ==
    <<"p", "l", "a", "c", "e", "s", ".", "s", "q", "l", "i", "t", "e">>

S_PathEq ==
    <<"P", "a", "t", "h", "=">>

\* Path::join (PathBuf::push): an absolute argument replaces the path; otherwise
\* it is appended, after a separator unless the path already ends with one.
join(base, rel) ==
    IF Len(rel) > 0 /\ rel[1] = "/" THEN rel
    ELSE IF Len(base) = 0 \/ base[Len(base)] = "/" THEN base \o rel
    ELSE base \o <<"/">> \o rel

RECURSIVE SplitLines(_, _, _)

\* The pieces of s between "\n" characters; cur is the piece being read.  A
\* last piece that is empty (the text ended with "\n", or is empty) is no line.
SplitLines(s, i, cur) ==
    IF i > Len(s) THEN (IF cur = <<>> THEN <<>> ELSE <<cur>>)
    ELSE IF s[i] = "\n" THEN <<cur>> \o SplitLines(s, i + 1, <<>>)
    ELSE SplitLines(s, i + 1, Append(cur, s[i]))

\* str::lines: lines end with "\n" or "\r\n"; the terminator is not part of the line
lines(s) ==
    LET raw == SplitLines(s, 1, <<>>)
        strip(l) == IF Len(l) > 0 /\ l[Len(l)] = "\r" THEN SubSeq(l, 1, Len(l) - 1) ELSE l
        \* a final piece without "\n" keeps its "\r"
        unterminated == Len(s) > 0 /\ s[Len(s)] # "\n"
    IN  [i \in 1..Len(raw) |->
            IF i = Len(raw) /\ unterminated THEN raw[i] ELSE strip(raw[i])]

RECURSIVE trim_start_matches(_, _)

\* str::trim_start_matches(pat): the prefix is removed repeatedly
trim_start_matches(s, pat) ==
    IF Len(pat) > 0 /\ starts_with(s, pat)
    THEN trim_start_matches(SubSeq(s, Len(pat) + 1, Len(s)), pat)
    ELSE s

RECURSIVE ScanPathLines(_, _, _)

\* `for line in content.lines() { if line.starts_with("Path=") { default_path = .. } }`
ScanPathLines(ls, i, default_path) ==
    IF i > Len(ls) THEN default_path
    ELSE ScanPathLines(ls, i + 1,
            IF starts_with(ls[i], S_PathEq)
            THEN Some(trim_start_matches(ls[i], S_PathEq))
            ELSE default_path)

\* The registry directory of a Gecko browser under HOME
profile_dir(b, h) ==
    IF b = "Zen" THEN h \o ZenDir ELSE h \o FirefoxDir

\* fn find_firefox_profile(browser)
find_firefox_profile(b, h, files) ==
    IF h = None THEN None
    ELSE IF b \notin {"Zen", "Firefox"} THEN None
    ELSE LET dir == profile_dir(b, h.val)
             profiles_ini == join(dir, ProfilesIni)
         IN  IF ~exists(profiles_ini, files) THEN None
             ELSE LET content == read_to_string(profiles_ini, files)
                  IN  IF content.tag = "Err" THEN None
                      ELSE LET default_path ==
                                   ScanPathLines(lines(content.val.chars), 1, None)
                           IN  IF default_path # None
                               THEN Some(join(dir, default_path.val))
                               ELSE None

----------------------------------------------------------------------------
(* The Gecko store: moz_bookmarks rows (type, fk, title) and moz_places rows, *)
(* where place i of the sequence is the row with id i.  A column value is     *)
(* NULL, a text or a value of another storage class (a BLOB).                 *)

SqlNull ==
    [k |-> "null"]

SqlText(s) ==
    [k |-> "text", s |-> s]

SqlBlob ==
    [k |-> "blob"]

RECURSIVE JoinRows(_, _, _)

\* SELECT mb.title, mp.url FROM moz_bookmarks mb JOIN moz_places mp ON mb.fk = mp.id
\* WHERE mb.type = 1 AND mp.url IS NOT NULL: the rows, in table order
JoinRows(db, i, rows) ==
    IF i > Len(db.bookmarks) THEN rows
    ELSE LET mb == db.bookmarks[i]
             hit == /\ mb.fk \in 1..Len(db.places)
                    /\ mb.type = 1
                    /\ db.places[mb.fk] # SqlNull
         IN  JoinRows(db, i + 1,
                IF hit THEN Append(rows, [title |-> mb.title, url |-> db.places[mb.fk]])
                ELSE rows)

\* row.get::<_, String>(i): Ok for a text value only
row_get(v) ==
    IF v.k = "text" THEN Ok(v.s) ELSE Err("InvalidColumnType", <<>>)

\* Mutation of MapRow: a title that cannot be read fails the row.
MapRow_TitleRequired(row) ==
    IF row_get(row.url).tag = "Err" \/ row_get(row.title).tag = "Err"
    THEN Err("InvalidColumnType", <<>>)
    ELSE Ok(Bookmark(row_get(row.title).val, row_get(row.url).val))

\* The query_map closure: the title falls back to "Untitled", the url is required
MapRow(row) ==
    LET name == IF row_get(row.title).tag = "Ok" THEN row_get(row.title).val ELSE "Untitled"
        url == row_get(row.url)
    IN  IF url.tag = "Err" THEN url ELSE Ok(Bookmark(name, url.val))

RECURSIVE CollectOk(_, _, _)

\* .filter_map(|r| r.ok()).collect()
CollectOk(rows, i, acc) ==
    IF i > Len(rows) THEN acc
    ELSE LET r == MapRow(rows[i])
         IN  CollectOk(rows, i + 1, IF r.tag = "Ok" THEN Append(acc, r.val) ELSE acc)

\* Whether the bytes are a database holding the two tables the statement names
Preparable(data) ==
    data.t = "sqlite"

\* The bookmarks the statement yields over the bytes the connection reads; a
\* step that fails is an Err item, which filter_map drops
QueryBookmarks(data) ==
    IF data.t = "sqlite" THEN CollectOk(JoinRows(data.db, 1, <<>>), 1, <<>>) ELSE <<>>

----------------------------------------------------------------------------
(* parse_firefox_bookmarks, one action per statement that touches the       *)
(* temporary file.  Calls are named; get_bookmarks makes call "a".          *)

Calls ==
    {"a", "b"}

\* Mutation of temp_db: a name of the call's own.
temp_db_PerCall(c) ==
    "places_temp_" \o c \o ".sqlite"

\* std::env::temp_dir().join("places_temp.sqlite"): the same name in every call
temp_db(c) ==
    "places_temp.sqlite"

TempNames ==
    {temp_db(c) : c \in Calls}

EmptyDb ==
    [t |-> "empty"]

Return(c, r) ==
    /\ fres' = [fres EXCEPT ![c] = r]
    /\ fpc' = [fpc EXCEPT ![c] = "Returned"]
    /\ conn' = [conn EXCEPT ![c] = 0]

\* lines 184-192: the existence check and fs::copy(&places_db, &temp_db)?
FxCopy(c) ==
    /\ fpc[c] = "Copy"
    /\ LET places_db == join(farg[c], PlacesSqlite)
       IN  IF ~exists(places_db, fs)
           THEN /\ Return(c, Err("places.sqlite not found", places_db))
                /\ UNCHANGED <<inodes, tmp>>
           ELSE IF fs[places_db].t = "unreadable"
           THEN /\ Return(c, Err("Io", places_db))
                /\ UNCHANGED <<inodes, tmp>>
           ELSE /\ IF tmp[temp_db(c)] = 0
                   THEN /\ inodes' = Append(inodes, [data |-> fs[places_db], by |-> c])
                        /\ tmp' = [tmp EXCEPT ![temp_db(c)] = Len(inodes) + 1]
                   ELSE /\ inodes' = [inodes EXCEPT ![tmp[temp_db(c)]] =
                                         [data |-> fs[places_db], by |-> c]]
                        /\ tmp' = tmp
                /\ fpc' = [fpc EXCEPT ![c] = "Open"]
                /\ UNCHANGED <<conn, fres>>
    /\ UNCHANGED <<envVars, callVars, farg, fbm>>

\* line 194: Connection::open(&temp_db)?, which creates the file when it is missing
FxOpen(c) ==
    /\ fpc[c] = "Open"
    /\ \E opened \in BOOLEAN :
          IF ~opened
          THEN /\ Return(c, Err("Sqlite", <<"open">>))
               /\ UNCHANGED <<inodes, tmp>>
          ELSE /\ IF tmp[temp_db(c)] = 0
                  THEN /\ inodes' = Append(inodes, [data |-> EmptyDb, by |-> c])
                       /\ tmp' = [tmp EXCEPT ![temp_db(c)] = Len(inodes) + 1]
                       /\ conn' = [conn EXCEPT ![c] = Len(inodes) + 1]
                  ELSE /\ conn' = [conn EXCEPT ![c] = tmp[temp_db(c)]]
                       /\ UNCHANGED <<inodes, tmp>>
               /\ fpc' = [fpc EXCEPT ![c] = "Prepare"]
               /\ fres' = fres
    /\ UNCHANGED <<envVars, callVars, farg, fbm>>

\* lines 196-201: conn.prepare(..)?
FxPrepare(c) ==
    /\ fpc[c] = "Prepare"
    /\ IF Preparable(inodes[conn[c]].data)
       THEN /\ fpc' = [fpc EXCEPT ![c] = "Query"]
            /\ UNCHANGED <<conn, fres>>
       ELSE Return(c, Err("Sqlite", <<"prepare">>))
    /\ UNCHANGED <<envVars, callVars, farg, fbm, inodes, tmp>>

\* lines 203-211: stmt.query_map(..)?.filter_map(|r| r.ok()).collect()
FxQuery(c) ==
    /\ fpc[c] = "Query"
    /\ fbm' = [fbm EXCEPT ![c] = QueryBookmarks(inodes[conn[c]].data)]
    /\ fpc' = [fpc EXCEPT ![c] = "Remove"]
    /\ UNCHANGED <<envVars, callVars, farg, conn, fres, inodes, tmp>>

\* lines 214-216: let _ = fs::remove_file(temp_db); Ok(bookmarks)
FxRemove(c) ==
    /\ fpc[c] = "Remove"
    /\ tmp' = [tmp EXCEPT ![temp_db(c)] = 0]
    /\ Return(c, Ok(fbm[c]))
    /\ UNCHANGED <<envVars, callVars, farg, fbm, inodes>>

----------------------------------------------------------------------------
(* get_bookmarks *)

ChromiumFamily ==
    {"Chrome", "Brave", "Edge"}

GeckoFamily ==
    {"Firefox", "Zen"}

\* Mutation of dispatch: an unknown browser is treated as Chrome.
dispatch_UnknownAsChrome(b) ==
    IF b \in GeckoFamily THEN "GeckoProfile" ELSE "ChromiumPath"

\* `match browser`: the arm get_bookmarks takes
dispatch(b) ==
    IF b \in ChromiumFamily THEN "ChromiumPath"
    ELSE IF b \in GeckoFamily THEN "GeckoProfile"
    ELSE "Failed"

\* lines 124-127 and 146: Browser::detect() and the match on its result
GbDetect ==
    /\ pc = "Detecting"
    /\ browser' = detect(cmd)
    /\ log' = Append(log, "detect")
    /\ pc' = dispatch(browser')
    /\ result' = IF pc' = "Failed" THEN Err("Could not detect browser", <<>>) ELSE result
    /\ UNCHANGED <<envVars, path, geckoVars>>

\* Mutation of GbChromiumPath: the parser is called without the exists() check.
GbChromiumPath_NoExists ==
    /\ pc = "ChromiumPath"
    /\ LET p == bookmark_path(browser, home)
       IN  IF p = None
           THEN /\ pc' = "Failed"
                /\ result' = Err("Could not determine bookmark path", <<>>)
                /\ log' = Append(log, "bookmark_path")
                /\ path' = path
           ELSE /\ path' = p
                /\ log' = Append(log, "bookmark_path")
                /\ pc' = "ChromiumParse"
                /\ result' = result
    /\ UNCHANGED <<envVars, browser, geckoVars>>

\* lines 129-135: bookmark_path().ok_or(..)? and the path.exists() check
GbChromiumPath ==
    /\ pc = "ChromiumPath"
    /\ LET p == bookmark_path(browser, home)
       IN  IF p = None
           THEN /\ pc' = "Failed"
                /\ result' = Err("Could not determine bookmark path", <<>>)
                /\ log' = Append(log, "bookmark_path")
                /\ path' = path
           ELSE /\ path' = p
                /\ log' = log \o <<"bookmark_path", "exists">>
                /\ IF ~exists(p.val, fs)
                   THEN /\ pc' = "Failed"
                        /\ result' = Err("Bookmark file not found", p.val)
                   ELSE /\ pc' = "ChromiumParse"
                        /\ result' = result
    /\ UNCHANGED <<envVars, browser, geckoVars>>

\* line 137: parse_chromium_bookmarks(&path), whose result get_bookmarks returns
GbChromiumParse ==
    /\ pc = "ChromiumParse"
    /\ result' = parse_chromium_bookmarks(path.val, fs)
    /\ log' = Append(log, "parse_chromium_bookmarks")
    /\ pc' = IF result'.tag = "Ok" THEN "Done" ELSE "Failed"
    /\ UNCHANGED <<envVars, browser, path, geckoVars>>

\* lines 140-144: find_firefox_profile(&browser).ok_or(..)? and the call of
\* parse_firefox_bookmarks(&profile_path)
GbGeckoProfile ==
    /\ pc = "GeckoProfile"
    /\ LET profile_path == find_firefox_profile(browser, home, fs)
       IN  IF profile_path = None
           THEN /\ pc' = "Failed"
                /\ result' = Err("Could not find Firefox/Zen profile", <<>>)
                /\ log' = Append(log, "find_firefox_profile")
                /\ UNCHANGED <<path, fpc, farg>>
           ELSE /\ path' = profile_path
                /\ log' = log \o <<"find_firefox_profile", "parse_firefox_bookmarks">>
                /\ pc' = "GeckoParse"
                /\ fpc' = [fpc EXCEPT !["a"] = "Copy"]
                /\ farg' = [farg EXCEPT !["a"] = profile_path.val]
                /\ result' = result
    /\ UNCHANGED <<envVars, browser, conn, fbm, fres, inodes, tmp>>

\* line 144: the value of parse_firefox_bookmarks is the value of get_bookmarks
GbGeckoReturn ==
    /\ pc = "GeckoParse"
    /\ fpc["a"] = "Returned"
    /\ result' = fres["a"]
    /\ pc' = IF fres["a"].tag = "Ok" THEN "Done" ELSE "Failed"
    /\ UNCHANGED <<envVars, browser, path, log, geckoVars>>

----------------------------------------------------------------------------
(* Inputs *)

MaxOutFrags ==
    2

MaxLineFrags ==
    3

MaxLines ==
    2

MaxChildren ==
    2

MaxRows ==
    2

MaxPlaces ==
    2

RECURSIVE Concats(_, _)

\* The texts made of at most n of the fragments F
Concats(F, n) ==
    IF n = 0 THEN {<<>>}
    ELSE LET shorter == Concats(F, n - 1)
         IN  shorter \cup {x \o f : x \in shorter, f \in F}

RECURSIVE SeqsUpTo(_, _)

\* The sequences of at most n elements of S
SeqsUpTo(S, n) ==
    IF n = 0 THEN {<<>>}
    ELSE LET shorter == SeqsUpTo(S, n - 1)
         IN  shorter \cup {Append(x, e) : x \in shorter, e \in S}

\* The file system holding exactly the given <<path, content>> entries
MkFs(entries) ==
    [p \in {e[1] : e \in entries} |-> (CHOOSE e \in entries : e[1] = p)[2]]

HomeDir ==
    <<"/", "h">>

\* Default-browser identifiers: desktop-file names and pieces of them
OutFrags ==
    { S_zen, <<"Z", "e", "n">>, S_chrome, <<"C", "h", "r", "o", "m", "e">>,
      S_firefox, S_brave, S_edge, <<"E", "D", "G", "E">>,
      <<"z", "e">>, <<"n">>, <<".", "d", "e", "s", "k", "t", "o", "p">>,
      <<InvalidByte>> }

CmdOutcomes(outputs) ==
    {[spawned |-> FALSE]}
        \cup {[spawned |-> TRUE, status |-> st, stdout |-> o] : st \in {0, 1}, o \in outputs}

Cmds ==
    CmdOutcomes(Concats(OutFrags, MaxOutFrags))

SmallCmds ==
    CmdOutcomes({ <<>>, S_zen \o S_firefox, S_chrome, S_firefox, S_brave, S_edge })

\* profiles.ini texts
LineFrags ==
    { S_PathEq, <<"p", "1">>, <<"p", "2">>, <<"D", "e", "f", "a", "u", "l", "t", "=", "1">> }

RECURSIVE Unlines(_, _)

\* The lines, each followed by the terminator
Unlines(ls, eol) ==
    IF ls = <<>> THEN <<>> ELSE Head(ls) \o eol \o Unlines(Tail(ls), eol)

\* with every line terminated, or with the last terminator left out
IniTexts ==
    LET terminated ==
            { Unlines(ls, eol) :
                ls \in SeqsUpTo(Concats(LineFrags, MaxLineFrags), MaxLines),
                eol \in { <<"\n">>, <<"\r", "\n">> } }
    IN  terminated \cup
            {SubSeq(t, 1, Len(t) - 1) : t \in {u \in terminated : Len(u) > 0}}

SmallIniTexts ==
    { Unlines(<<S_PathEq \o <<"p", "1">> >>, <<"\n">>),
      Unlines(<<<<"D", "e", "f", "a", "u", "l", "t", "=", "1">> >>, <<"\n">>) }

\* Chromium bookmark documents
Obj(pairs) ==
    JObj([key \in {e[1] : e \in pairs} |-> (CHOOSE e \in pairs : e[1] = key)[2]])

UrlNode(name, url) ==
    Obj({<<"type", JStr("url")>>, <<"name", JStr(name)>>, <<"url", JStr(url)>>})

Folder(items) ==
    Obj({<<"type", JStr("folder")>>, <<"name", JStr("F")>>, <<"children", JArr(items)>>})

NodeA ==
    UrlNode("A", "http://a")

NodeB ==
    UrlNode("B", "http://b")

LeafNodes ==
    { NodeA, NodeB, UrlNode("E", ""),
      Obj({<<"type", JStr("url")>>, <<"name", JStr("A")>>}),
      Obj({<<"type", JStr("url")>>, <<"url", JStr("http://a")>>}),
      Obj({<<"type", JStr("url")>>, <<"name", JNum>>, <<"url", JStr("http://a")>>}),
      Obj({<<"type", JStr("url")>>, <<"name", JStr("A")>>, <<"url", JNull>>}),
      Obj({<<"type", JStr("url")>>, <<"name", JStr("A")>>, <<"url", JStr("http://a")>>,
           <<"children", JArr(<<NodeB>>)>>}),
      Obj({<<"type", JStr("separator")>>, <<"name", JStr("A")>>, <<"url", JStr("http://a")>>}),
      Obj({<<"name", JStr("A")>>, <<"url", JStr("http://a")>>}),
      Obj({<<"type", JNum>>, <<"name", JStr("A")>>, <<"url", JStr("http://a")>>}),
      Obj({<<"type", JStr("folder")>>, <<"name", JStr("A")>>, <<"url", JStr("http://a")>>}),
      Obj({<<"type", JStr("folder")>>, <<"children", JNum>>}),
      JNum, JNull, JArr(<<NodeA>>) }

ChildNodes ==
    { NodeA, NodeB, UrlNode("E", ""),
      Obj({<<"type", JStr("url")>>, <<"name", JStr("A")>>}),
      Obj({<<"type", JStr("separator")>>, <<"name", JStr("A")>>, <<"url", JStr("http://a")>>}),
      Obj({<<"children", JArr(<<NodeA>>)>>}),
      Folder(<<NodeB, NodeA>>),
      Folder(<<Folder(<<NodeA>>), NodeB>>) }

TopNodes ==
    LeafNodes \cup {Folder(items) : items \in SeqsUpTo(ChildNodes, MaxChildren)}

Absent ==
    [k |-> "absent"]

Roots(bar, other, synced) ==
    Obj({e \in {<<"bookmark_bar", bar>>, <<"other", other>>, <<"synced", synced>>} :
            e[2] # Absent})

Docs ==
    { Obj({<<"roots", Roots(bar, other, synced)>>, <<"version", JNum>>}) :
        bar \in TopNodes \cup {Absent},
        other \in {Absent, NodeB, Folder(<<NodeA, NodeB>>)},
        synced \in {Absent, NodeA} }
    \cup { Obj({<<"version", JNum>>}), Obj({<<"roots", JNum>>}),
           Obj({<<"roots", JArr(<<NodeA>>)>>}), JNum, JArr(<<NodeA>>) }

SmallDocs ==
    { Obj({<<"roots", Roots(Folder(<<NodeA, UrlNode("E", "")>>), NodeB, Absent)>>}),
      Obj({<<"roots", Roots(Folder(<<Obj({<<"type", JStr("url")>>, <<"name", JStr("A")>>})>>),
                            Absent, NodeA)>>}),
      Obj({<<"version", JNum>>}) }

\* Gecko stores
Titles ==
    {SqlNull, SqlText("A")}

Urls ==
    {SqlNull, SqlText("http://a"), SqlBlob}

BookmarkRows ==
    [type : {1, 2}, fk : 0..MaxPlaces, title : Titles]

Stores ==
    { [bookmarks |-> bs, places |-> ps] :
        bs \in SeqsUpTo(BookmarkRows, MaxRows), ps \in SeqsUpTo(Urls, MaxPlaces) }

SmallStores ==
    { [bookmarks |-> <<[type |-> 1, fk |-> 1, title |-> SqlText("A")]>>,
       places |-> <<SqlText("http://a")>>],
      [bookmarks |-> <<[type |-> 1, fk |-> 1, title |-> SqlNull],
                       [type |-> 1, fk |-> 2, title |-> SqlText("B")],
                       [type |-> 2, fk |-> 0, title |-> SqlText("F")]>>,
       places |-> <<SqlText(""), SqlBlob>>] }

----------------------------------------------------------------------------
(* Initial states and specifications *)

NoFile ==
    [t |-> "nofile"]

\* The file system with the entries whose content is a file
FsWith(entries) ==
    MkFs({e \in entries : e[2] # NoFile})

NoCall ==
    /\ pc = "Idle"
    /\ browser = "-"
    /\ path = None
    /\ result = Pending
    /\ log = <<>>

NoGeckoCall ==
    /\ fpc = [c \in Calls |-> "Idle"]
    /\ farg = [c \in Calls |-> <<>>]
    /\ conn = [c \in Calls |-> 0]
    /\ fbm = [c \in Calls |-> <<>>]
    /\ fres = [c \in Calls |-> Pending]
    /\ inodes = <<>>
    /\ tmp = [n \in TempNames |-> 0]

\* The command outcome after which detect() answers b
CmdOf(b) ==
    [spawned |-> TRUE, status |-> 0,
     stdout |-> CASE b = "Zen" -> S_zen
                  [] b = "Chrome" -> S_chrome
                  [] b = "Firefox" -> S_firefox
                  [] b = "Brave" -> S_brave
                  [] OTHER -> S_edge]

\* get_bookmarks from its first statement, in a small environment
Init ==
    /\ cmd \in SmallCmds
    /\ home \in {None, Some(HomeDir)}
    /\ \E bf \in {NoFile, BadJsonText} \cup {JsonText(d) : d \in SmallDocs},
          ini \in {NoFile} \cup {PlainText(t) : t \in SmallIniTexts},
          st \in {NoFile, GarbageFile} \cup {DbFile(db) : db \in SmallStores} :
          fs = FsWith(
                 {<<HomeDir \o sfx, bf>> : sfx \in {ChromeSuffix, BraveSuffix, EdgeSuffix}}
                 \cup {<<join(HomeDir \o reg, ProfilesIni), ini>> : reg \in {ZenDir, FirefoxDir}}
                 \cup {<<join(join(HomeDir \o reg, <<"p", "1">>), PlacesSqlite), st>> :
                          reg \in {ZenDir, FirefoxDir}})
    /\ pc = "Detecting"
    /\ browser = "-"
    /\ path = None
    /\ result = Pending
    /\ log = <<>>
    /\ NoGeckoCall

Next ==
    \/ GbDetect
    \/ GbChromiumPath
    \/ GbChromiumParse
    \/ GbGeckoProfile
    \/ GbGeckoReturn
    \/ \E c \in Calls : FxCopy(c) \/ FxOpen(c) \/ FxPrepare(c) \/ FxQuery(c) \/ FxRemove(c)

Spec ==
    Init /\ [][Next]_vars

\* Browser::detect over the command outcomes
InitDetect ==
    /\ cmd \in Cmds
    /\ home = Some(HomeDir)
    /\ fs = FsWith({})
    /\ pc = "Detecting"
    /\ browser = "-"
    /\ path = None
    /\ result = Pending
    /\ log = <<>>
    /\ NoGeckoCall

NextDetect ==
    GbDetect

SpecDetect ==
    InitDetect /\ [][NextDetect]_vars

\* find_firefox_profile over the profiles.ini texts
InitProfile ==
    /\ browser \in GeckoFamily
    /\ cmd = CmdOf(browser)
    /\ home = Some(HomeDir)
    /\ \E ini \in {NoFile, Unreadable} \cup {PlainText(t) : t \in IniTexts} :
          fs = FsWith({<<join(profile_dir(browser, HomeDir), ProfilesIni), ini>>})
    /\ pc = "GeckoProfile"
    /\ path = None
    /\ result = Pending
    /\ log = <<"detect">>
    /\ NoGeckoCall

NextProfile ==
    GbGeckoProfile

SpecProfile ==
    InitProfile /\ [][NextProfile]_vars

\* parse_chromium_bookmarks over the bookmark documents
InitChromium ==
    /\ browser \in ChromiumFamily
    /\ cmd = CmdOf(browser)
    /\ home = Some(HomeDir)
    /\ path = bookmark_path(browser, home)
    /\ \E bf \in {Unreadable, BadJsonText} \cup {JsonText(d) : d \in Docs} :
          fs = FsWith({<<path.val, bf>>})
    /\ pc = "ChromiumParse"
    /\ result = Pending
    /\ log = <<"detect", "bookmark_path", "exists">>
    /\ NoGeckoCall

NextChromium ==
    GbChromiumParse

SpecChromium ==
    InitChromium /\ [][NextChromium]_vars

ProfileA ==
    join(HomeDir \o ZenDir, <<"p", "1">>)

ProfileB ==
    join(HomeDir \o ZenDir, <<"p", "2">>)

\* A file the name places_temp.sqlite may refer to before a call: none, or one
\* left by an earlier run
StaleTemp ==
    [data |-> GarbageFile, by |-> "earlier run"]

\* one parse_firefox_bookmarks call over the stores
InitGecko ==
    /\ NoCall
    /\ cmd = CmdOf("Zen")
    /\ home = Some(HomeDir)
    /\ \E st \in {NoFile, Unreadable, GarbageFile} \cup {DbFile(db) : db \in Stores} :
          fs = FsWith({<<join(ProfileA, PlacesSqlite), st>>})
    /\ fpc = [c \in Calls |-> IF c = "a" THEN "Copy" ELSE "Idle"]
    /\ farg = [c \in Calls |-> IF c = "a" THEN ProfileA ELSE <<>>]
    /\ conn = [c \in Calls |-> 0]
    /\ fbm = [c \in Calls |-> <<>>]
    /\ fres = [c \in Calls |-> Pending]
    /\ \/ inodes = <<>> /\ tmp = [n \in TempNames |-> 0]
       \/ inodes = <<StaleTemp>> /\ tmp = [n \in TempNames |-> 1]

NextGecko ==
    \E c \in Calls : FxCopy(c) \/ FxOpen(c) \/ FxPrepare(c) \/ FxQuery(c) \/ FxRemove(c)

SpecGecko ==
    InitGecko /\ [][NextGecko]_vars

\* two parse_firefox_bookmarks calls on one host, each on a profile of its own
InitConc ==
    /\ NoCall
    /\ cmd = CmdOf("Zen")
    /\ home = Some(HomeDir)
    /\ \E sa, sb \in {GarbageFile} \cup {DbFile(db) : db \in SmallStores} :
          fs = FsWith({<<join(ProfileA, PlacesSqlite), sa>>,
                       <<join(ProfileB, PlacesSqlite), sb>>})
    /\ fpc = [c \in Calls |-> "Copy"]
    /\ farg = [c \in Calls |-> IF c = "a" THEN ProfileA ELSE ProfileB]
    /\ conn = [c \in Calls |-> 0]
    /\ fbm = [c \in Calls |-> <<>>]
    /\ fres = [c \in Calls |-> Pending]
    /\ inodes = <<>>
    /\ tmp = [n \in TempNames |-> 0]

SpecConc ==
    InitConc /\ [][NextGecko]_vars

----------------------------------------------------------------------------
(* Properties *)

\* Whether the operation is among those get_bookmarks has performed
InLog(op) ==
    \E i \in 1..Len(log) : log[i] = op

\* Whether call c returned after its copy to the temporary file had been made
ReturnedAfterCopy(c) ==
    /\ fpc[c] = "Returned"
    /\ \/ fres[c].tag = "Ok"
       \/ fres[c].tag = "Err" /\ fres[c].kind = "Sqlite"

\* C1: when a single parse_firefox_bookmarks call returns after the copy was
\* made, on success or on any failure, the temporary copy no longer exists.
C1_TempRemovedOnReturn ==
    ReturnedAfterCopy("a") => tmp[temp_db("a")] = 0

\* C3: Browser::detect yields Unknown whenever the default-browser command
\* failed (not spawned, or a non-zero exit status), whatever it wrote.
C3_FailureYieldsUnknown ==
    (pc # "Detecting" /\ (~cmd.spawned \/ cmd.status # 0)) => browser = "Unknown"

\* The tokens in their priority order, with the family each stands for
TokenOrder ==
    << <<S_zen, "Zen">>, <<S_chrome, "Chrome">>, <<S_firefox, "Firefox">>,
       <<S_brave, "Brave">>, <<S_edge, "Edge">> >>

\* The text with its capital letters replaced by small ones
Lowered(s) ==
    LET small == [ch \in {"Z", "C", "E", "D", "G"} |->
                    CASE ch = "Z" -> "z" [] ch = "C" -> "c" [] ch = "E" -> "e"
                      [] ch = "D" -> "d" [] OTHER -> "g"]
    IN  [i \in 1..Len(s) |-> IF s[i] \in DOMAIN small THEN small[s[i]] ELSE s[i]]

\* Whether t occurs in s as a run of consecutive characters
Occurs(t, s) ==
    \E start \in 1..Len(s) :
        /\ start + Len(t) - 1 <= Len(s)
        /\ \A j \in 1..Len(t) : s[start + j - 1] = t[j]

\* The family of the first token, in priority order, that occurs in the text
FirstTokenFamily(s) ==
    LET hits == {i \in 1..Len(TokenOrder) : Occurs(TokenOrder[i][1], Lowered(s))}
    IN  IF hits = {} THEN "Unknown"
        ELSE TokenOrder[CHOOSE i \in hits : \A j \in hits : i <= j][2]

\* C4: after a successful default-browser query, detect returns the family of
\* the first of zen, chrome, firefox, brave, edge that occurs in the lowercased
\* output, and Unknown when none occurs.
C4_FirstTokenInOrder ==
    (pc # "Detecting" /\ cmd.spawned /\ cmd.status = 0)
        => browser = FirstTokenFamily(cmd.stdout)

\* C4 witness: an output holding both "zen" and "chrome" was classified as Zen
C4_ZenBeforeChrome ==
    /\ pc # "Detecting"
    /\ cmd.spawned
    /\ cmd.status = 0
    /\ Occurs(S_zen, Lowered(cmd.stdout))
    /\ Occurs(S_chrome, Lowered(cmd.stdout))
    /\ browser = "Zen"

\* C5: once detection has yielded Unknown, get_bookmarks has failed with
\* "Could not detect browser", having resolved no path, read no file, run no
\* parser and produced no list; and it takes no step after that.
C5_UnknownFailsAtOnce ==
    /\ [](browser = "Unknown" =>
            /\ pc = "Failed"
            /\ result = Err("Could not detect browser", <<>>)
            /\ log = <<"detect">>
            /\ path = None
            /\ \A c \in Calls : fpc[c] = "Idle")
    /\ [][browser = "Unknown" => vars' = vars]_vars

\* C5 witness: detection yielded Unknown and the call has failed
C5_UnknownDetected ==
    browser = "Unknown" /\ pc = "Failed" /\ result.tag = "Err"

\* The bookmark file of a Chromium-family browser under the home directory
ExpectedBookmarkFile(b, h) ==
    h \o (CASE b = "Chrome" -> ChromeSuffix [] b = "Brave" -> BraveSuffix [] OTHER -> EdgeSuffix)

\* C9: a parser runs only after the resolution for the detected family
\* succeeded, and each failed resolution ends get_bookmarks with its error:
\* the Chromium parser only for a Chromium browser whose bookmark path resolved
\* and exists, the Gecko parser only for a Gecko browser whose profile was found.
C9_ParsingAfterResolution ==
    /\ (pc = "ChromiumParse" \/ InLog("parse_chromium_bookmarks")) =>
            /\ browser \in ChromiumFamily
            /\ home # None
            /\ path = Some(ExpectedBookmarkFile(browser, home.val))
            /\ path.val \in DOMAIN fs
            /\ \A c \in Calls : fpc[c] = "Idle"
    /\ (pc = "GeckoParse" \/ InLog("parse_firefox_bookmarks") \/ fpc["a"] # "Idle") =>
            /\ browser \in GeckoFamily
            /\ path # None
            /\ path = find_firefox_profile(browser, home, fs)
            /\ ~InLog("parse_chromium_bookmarks")
    /\ (browser \in ChromiumFamily /\ pc # "ChromiumPath" /\ home = None) =>
            /\ pc = "Failed"
            /\ result = Err("Could not determine bookmark path", <<>>)
    /\ (/\ browser \in ChromiumFamily
        /\ pc # "ChromiumPath"
        /\ home # None
        /\ ExpectedBookmarkFile(browser, home.val) \notin DOMAIN fs) =>
            /\ pc = "Failed"
            /\ result = Err("Bookmark file not found", ExpectedBookmarkFile(browser, home.val))
            /\ ~InLog("parse_chromium_bookmarks")
    /\ (/\ browser \in GeckoFamily
        /\ pc # "GeckoProfile"
        /\ find_firefox_profile(browser, home, fs) = None) =>
            /\ pc = "Failed"
            /\ result = Err("Could not find Firefox/Zen profile", <<>>)
            /\ fpc["a"] = "Idle"

\* C9 witness: a Chromium browser whose bookmark file is missing ended in
\* "Bookmark file not found" without the parser having run
C9_FileNotFound ==
    /\ pc = "Failed"
    /\ browser \in ChromiumFamily
    /\ result.tag = "Err"
    /\ result.kind = "Bookmark file not found"
    /\ ~InLog("parse_chromium_bookmarks")


RECURSIVE UrlStrings(_)

\* The strings stored under a "url" key anywhere in a JSON value
UrlStrings(v) ==
    IF v.k = "obj"
    THEN (IF "url" \in DOMAIN v.f /\ v.f["url"].k = "str" THEN {v.f["url"].s} ELSE {})
            \cup UNION {UrlStrings(v.f[key]) : key \in DOMAIN v.f}
    ELSE IF v.k = "arr"
    THEN UNION {UrlStrings(v.items[i]) : i \in 1..Len(v.items)}
    ELSE {}

\* The url strings a file holds: of a bookmark document, or the text values of
\* the places table of a store
FileUrls(content) ==
    IF content.t = "json" THEN UrlStrings(content.doc)
    ELSE IF content.t = "sqlite"
    THEN {content.db.places[i].s :
            i \in {j \in 1..Len(content.db.places) : content.db.places[j].k = "text"}}
    ELSE {}

\* C2 as stated: every Bookmark of a successful result has a non-empty url.
C2_UrlNonEmpty ==
    result.tag = "Ok" => \A i \in 1..Len(result.val) : result.val[i].url # ""

\* C2 as amended: every Bookmark of a successful result has a url that is a
\* string stored as a url in the source (a node or row whose url is missing,
\* null or not a string is never emitted); the string may be empty.
C2_UrlIsSourceString ==
    result.tag = "Ok" =>
        \A i \in 1..Len(result.val) :
            result.val[i].url \in UNION {FileUrls(fs[p]) : p \in DOMAIN fs}

\* C2 witness: a successful result holding a Bookmark whose url is empty
C2_EmptyUrlEmitted ==
    /\ pc = "Done"
    /\ result.tag = "Ok"
    /\ \E i \in 1..Len(result.val) : result.val[i].url = ""

\* C6: for any profiles.ini text, the profile found is the registry directory
\* joined with what follows the one leading "Path=" of the last line that
\* begins with "Path=", and none when no line begins with it.
C6_LastPathLineWins ==
    LET ini == join(profile_dir(browser, HomeDir), ProfilesIni)
    IN  (pc # "GeckoProfile" /\ ini \in DOMAIN fs /\ fs[ini].t = "text") =>
            LET ls == lines(fs[ini].chars)
                hits == {i \in 1..Len(ls) :
                            Len(ls[i]) >= 5 /\ SubSeq(ls[i], 1, 5) = S_PathEq}
                last == CHOOSE i \in hits : \A j \in hits : j <= i
            IN  path = IF hits = {} THEN None
                       ELSE Some(join(profile_dir(browser, HomeDir),
                                      SubSeq(ls[last], 6, Len(ls[last]))))

\* The value under a key of a JSON object, Absent when there is none
Field(v, key) ==
    IF v.k = "obj" /\ key \in DOMAIN v.f THEN v.f[key] ELSE Absent

IsString(v, s) ==
    v.k = "str" /\ v.s = s

RECURSIVE Dfs(_)
RECURSIVE DfsAll(_)

\* The bookmarks of a node, depth first: a url node with string name and url is
\* one bookmark, a folder is its children in order, anything else is nothing
Dfs(n) ==
    IF IsString(Field(n, "type"), "url")
    THEN (IF Field(n, "name").k = "str" /\ Field(n, "url").k = "str"
          THEN <<Bookmark(Field(n, "name").s, Field(n, "url").s)>>
          ELSE <<>>)
    ELSE IF IsString(Field(n, "type"), "folder") /\ Field(n, "children").k = "arr"
    THEN DfsAll(Field(n, "children").items)
    ELSE <<>>

DfsAll(items) ==
    IF items = <<>> THEN <<>> ELSE Dfs(Head(items)) \o DfsAll(Tail(items))

\* The traversal of one root, empty when the root is not there
DfsRoot(doc, key) ==
    IF Field(Field(doc, "roots"), key) = Absent THEN <<>>
    ELSE Dfs(Field(Field(doc, "roots"), key))

\* C7: for every valid JSON document parse_chromium_bookmarks succeeds with
\* the depth-first traversals of roots.bookmark_bar, roots.other and
\* roots.synced, in that order; without a roots key the list is empty.
C7_ChromiumTraversal ==
    (pc # "ChromiumParse" /\ fs[path.val].t = "json") =>
        LET doc == fs[path.val].doc
        IN  /\ pc = "Done"
            /\ result = Ok(DfsRoot(doc, "bookmark_bar") \o DfsRoot(doc, "other")
                              \o DfsRoot(doc, "synced"))

\* C7 witness: a parsed document whose three roots all contributed bookmarks
C7_ThreeRootsParsed ==
    /\ pc = "Done"
    /\ fs[path.val].t = "json"
    /\ DfsRoot(fs[path.val].doc, "bookmark_bar") # <<>>
    /\ DfsRoot(fs[path.val].doc, "other") # <<>>
    /\ DfsRoot(fs[path.val].doc, "synced") # <<>>
    /\ Len(result.val) >= 4

\* The store that call "a" was given, when its places.sqlite is a database
StoreOfA ==
    fs[join(ProfileA, PlacesSqlite)]

\* The bookmarks rows of type 1 joined to a places row whose url is a value of
\* one of the given kinds
JoinedRows(db, kinds) ==
    {i \in 1..Len(db.bookmarks) :
        /\ db.bookmarks[i].type = 1
        /\ db.bookmarks[i].fk \in 1..Len(db.places)
        /\ db.places[db.bookmarks[i].fk].k \in kinds}

\* C8 as stated: the result has one Bookmark per row of type 1 joined to a
\* places row whose url is not null.
C8_OnePerNonNullUrl ==
    (/\ fpc["a"] = "Returned"
     /\ fres["a"].tag = "Ok"
     /\ join(ProfileA, PlacesSqlite) \in DOMAIN fs
     /\ StoreOfA.t = "sqlite") =>
        Len(fres["a"].val) = Cardinality(JoinedRows(StoreOfA.db, {"text", "blob"}))

\* C8 as amended: the result has exactly one Bookmark per row of type 1 joined
\* to a places row whose url is a text value; its name is the title when that
\* is a text and "Untitled" otherwise; rows whose url is null or a value that
\* is not text are left out.
C8_OnePerTextUrl ==
    (/\ fpc["a"] = "Returned"
     /\ fres["a"].tag = "Ok"
     /\ join(ProfileA, PlacesSqlite) \in DOMAIN fs
     /\ StoreOfA.t = "sqlite") =>
        LET db == StoreOfA.db
            rows == JoinedRows(db, {"text"})
            expected(i) ==
                Bookmark(IF db.bookmarks[i].title.k = "text"
                         THEN db.bookmarks[i].title.s
                         ELSE "Untitled",
                         db.places[db.bookmarks[i].fk].s)
            got == fres["a"].val
        IN  /\ Len(got) = Cardinality(rows)
            /\ \A b \in {got[j] : j \in 1..Len(got)} \cup {expected(i) : i \in rows} :
                  Cardinality({j \in 1..Len(got) : got[j] = b})
                      = Cardinality({i \in rows : expected(i) = b})

\* C8 witness: a returned list with an "Untitled" bookmark, from a store that
\* also holds a type 1 row joined to a places row without a url
C8_UntitledAndSkipped ==
    /\ fpc["a"] = "Returned"
    /\ fres["a"].tag = "Ok"
    /\ join(ProfileA, PlacesSqlite) \in DOMAIN fs
    /\ StoreOfA.t = "sqlite"
    /\ \E j \in 1..Len(fres["a"].val) : fres["a"].val[j].name = "Untitled"
    /\ JoinedRows(StoreOfA.db, {"null"}) # {}

\* Whether call c holds an open connection on the temporary file
Connected(c) ==
    fpc[c] \in {"Prepare", "Query", "Remove"}

\* C10: two concurrent calls share the one temporary file, with no locking:
\* whenever both hold an open connection, both are on the same file body, and
\* it holds the bytes of the store of one of them, the call that copied last.
C10_OneSharedTempFile ==
    \A c, d \in Calls :
        (c # d /\ Connected(c) /\ Connected(d)) =>
            /\ conn[c] = conn[d]
            /\ inodes[conn[c]].by \in {c, d}
            /\ inodes[conn[c]].data = fs[join(farg[inodes[conn[c]].by], PlacesSqlite)]

\* C10 witness: call "a" returned the bookmarks of the store of call "b", which
\* are not those of its own store
C10_ForeignBookmarksReturned ==
    /\ fpc["a"] = "Returned"
    /\ fres["a"].tag = "Ok"
    /\ fres["a"].val = QueryBookmarks(fs[join(ProfileB, PlacesSqlite)])
    /\ fres["a"].val # QueryBookmarks(fs[join(ProfileA, PlacesSqlite)])

====
